---- MODULE Spec2Model ----
(***************************************************************************)
(* Model of the log-insights RAG backend:                                  *)
(*   backend/services.py     the in-memory log store (_LOG_STORE)          *)
(*   backend/rag_service.py  RAGService: index_logs, search,               *)
(*                           grade_relevance, generate_response            *)
(*   backend/main.py         the /upload and /chat handlers                *)
(* Python lists are objects: the model keeps the contents of the list      *)
(* _LOG_STORE names, the contents of the list RAGService.logs names, and   *)
(* whether the two names denote one and the same list object.              *)
(***************************************************************************)
EXTENDS Integers, Sequences, FiniteSets, TLC

\* ------------------------------------------------------------------ bounds
\* longest CSV file (in rows) an upload carries
MaxLen == 2
\* largest top_k of a direct search() call (generate_response uses TopK)
MaxK == 2

\* ------------------------------------------------------- program constants
\* generate_response: self.search(query, top_k=5)
TopK == 5
\* the not-a-number score of numpy's 0/0, kept apart from every real score
\* (real scores are cosines scaled by 100, in -100..100); numpy's sort
\* places it after every number
NaN == 1000

\* ------------------------------------------------------------- log entries
\* models.LogEntry: timestamp, level, message (source is never read by the
\* RAG service).  A small universe: E3 has a text the encoder maps to the
\* zero vector.
E1 == [timestamp |-> 2, level |-> "ERROR", message |-> "disk full"]
E2 == [timestamp |-> 1, level |-> "INFO", message |-> "retrying write"]
E3 == [timestamp |-> 3, level |-> "", message |-> ""]
LogEntry == {E1, E2, E3}

\* the user questions of the model
Queries == {"disk", "retry", ""}

\* ------------------------------------------------------------ sequences
SeqsUpTo(S, n) == UNION {[1..m -> S] : m \in 0..n}

Range(s) == {s[i] : i \in DOMAIN s}

Min(a, b) == IF a <= b THEN a ELSE b

\* s[::-1]
Reverse(s) == [i \in 1..Len(s) |-> s[Len(s) + 1 - i]]

\* s[:n]
Take(s, n) == SubSeq(s, 1, Min(n, Len(s)))

\* all orderings of the index set 1..n
Perms(n) == {p \in [1..n -> 1..n] : \A i, j \in 1..n : i # j => p[i] # p[j]}

\* --------------------------------------------------------------- encoder
\* f"{log.level}: {log.message}"
EmbedText(log) == <<log.level, ": ", log.message>>

\* SentenceTransformer.encode on one text: a fixed, deterministic map from
\* texts to vectors (two dimensions here).  The model is configurable
\* (RAG_MODEL_NAME) and nothing normalises its output.
EncodeOne(text) ==
    CASE text = <<"ERROR", ": ", "disk full">> -> <<3, 4>>
      [] text = <<"INFO", ": ", "retrying write">> -> <<3, -4>>
      [] text = <<"disk">> -> <<1, 0>>
      [] text = <<"retry">> -> <<0, 2>>
      [] OTHER -> <<0, 0>>

\* self.model.encode(texts): one vector per text, in order
Encode(texts) == [i \in 1..Len(texts) |-> EncodeOne(texts[i])]

\* ------------------------------------------------------------ similarity
Dot(a, b) == a[1] * b[1] + a[2] * b[2]

\* np.linalg.norm of one vector (the vectors of the model have whole norms)
Norm(a) == CHOOSE n \in 0..10 : n * n = Dot(a, a)

\* one element of dots / (norms * |q|), scaled by 100; numpy's float
\* division 0/0 gives nan (a warning, not an exception)
Divide(dot, den) == IF den = 0 THEN NaN ELSE (100 * dot) \div den

\* the order numpy sorts by: numbers ascending, nan after every number
SortLeq(a, b) == a <= b

\* IEEE comparison of two scores: false whenever one of them is nan
ScoreGt(a, b) == a # NaN /\ b # NaN /\ a > b
ScoreGeq(a, b) == a # NaN /\ b # NaN /\ a >= b

\* ------------------------------------------------------------------ state
\* embeddings = None
NoEmbeddings == [none |-> TRUE, rows |-> <<>>]

\* a chat result not yet built
NoResult == [answer |-> [tag |-> "none", status |-> 0, detail |-> <<>>],
             context |-> <<>>]

VARIABLES
    store,         \* services._LOG_STORE: the elements of the list it names
    logs,          \* rag_service.logs: the elements of the list it names
    shared,        \* rag_service.logs is services._LOG_STORE (one object)
    embeddings,    \* rag_service.embeddings: None or one row per entry
    indexed,       \* the last index_logs call returned normally
    corpus,        \* the list the last index_logs call that returned was given
    upPc,          \* position of the /upload handler (event-loop thread)
    chPc,          \* position of the /chat (or search) thread
    query,         \* its query
    top_k,         \* its top_k
    caller,        \* "chat": search called by generate_response; "search"
    dots,          \* np.dot(self.embeddings, query_embedding)
    scores,        \* scores
    top_indices,   \* top_indices
    results,       \* results / raw_results
    todo,          \* raw_results the grading loop has still to visit
    relevant_logs, \* relevant_logs
    graded,        \* grading calls received by the backend, in order
    synthCalls,    \* context blocks of the synthesis calls received
    result,        \* the value generate_response returned
    exc            \* the exception the thread raised, "" for none

storeVars == <<store, logs, shared>>
indexVars == <<embeddings, indexed, corpus>>
upVars == <<upPc>>
chVars == <<chPc, query, top_k, caller, dots, scores, top_indices, results,
            todo, relevant_logs, graded, synthCalls, result, exc>>
vars == <<store, logs, shared, embeddings, indexed, corpus, upPc, chPc,
          query, top_k, caller, dots, scores, top_indices, results, todo,
          relevant_logs, graded, synthCalls, result, exc>>

\* number of rows of self.embeddings, 0 for None
Rows == Len(embeddings.rows)

\* a file that decodes and parses into these entries, or one that does not
\* decode as UTF-8
BadFile == [ok |-> FALSE, entries |-> <<>>]
Files == {[ok |-> TRUE, entries |-> es] : es \in SeqsUpTo(LogEntry, MaxLen)}
             \cup {BadFile}

\* module load: _LOG_STORE = [], RAGService(): embeddings None, logs []
Init ==
    /\ store = <<>>
    /\ logs = <<>>
    /\ shared = FALSE
    /\ embeddings = NoEmbeddings
    /\ indexed = TRUE
    /\ corpus = <<>>
    /\ upPc = "idle"
    /\ chPc = "idle"
    /\ query = ""
    /\ top_k = TopK
    /\ caller = "chat"
    /\ dots = <<>>
    /\ scores = <<>>
    /\ top_indices = <<>>
    /\ results = <<>>
    /\ todo = <<>>
    /\ relevant_logs = <<>>
    /\ graded = <<>>
    /\ synthCalls = <<>>
    /\ result = NoResult
    /\ exc = ""

\* ------------------------------------------------------------------ store
\* clear_store(): _LOG_STORE = [] binds the name to a new empty list; a
\* list self.logs names is left as it is
DoClearStore ==
    /\ store' = <<>>
    /\ shared' = FALSE
    /\ UNCHANGED logs

\* _LOG_STORE.append(entry) / _LOG_STORE.extend(new_entries): the list
\* object is changed in place, under every name it has
DoExtendStore(es) ==
    /\ store' = store \o es
    /\ logs' = (IF shared THEN store \o es ELSE logs)
    /\ UNCHANGED shared

\* services.clear_store() called on its own
ClearStore ==
    /\ upPc = "idle"
    /\ DoClearStore
    /\ UNCHANGED <<indexVars, upVars, chVars>>

\* services.add_log_entry(entry) called on its own
AddLogEntry(entry) ==
    /\ upPc = "idle"
    /\ Len(store) < MaxLen
    /\ DoExtendStore(<<entry>>)
    /\ UNCHANGED <<indexVars, upVars, chVars>>

\* services.parse_csv_file(content) called on its own; a file that does
\* not decode raises before the store is touched
ParseCsvFile(file) ==
    /\ upPc = "idle"
    /\ Len(store) + Len(file.entries) <= MaxLen
    /\ IF file.ok THEN DoExtendStore(file.entries)
       ELSE UNCHANGED storeVars
    /\ UNCHANGED <<indexVars, upVars, chVars>>

\* ----------------------------------------------------------------- upload
\* upload_file: services.clear_store()  (a name not ending in .csv is
\* refused before anything is touched)
UploadClear ==
    /\ upPc = "idle"
    /\ DoClearStore
    /\ upPc' = "parse"
    /\ UNCHANGED <<indexVars, chVars>>

\* upload_file: count = services.parse_csv_file(content), content being
\* the uploaded file; an exception becomes HTTP 500 and the handler ends
\* with the store cleared
UploadParse(file) ==
    /\ upPc = "parse"
    /\ IF file.ok
       THEN DoExtendStore(file.entries) /\ upPc' = "index"
       ELSE UNCHANGED storeVars /\ upPc' = "idle"
    /\ UNCHANGED <<indexVars, chVars>>

\* index_logs(services.get_all_logs()): self.logs = logs; get_all_logs
\* returns the list object _LOG_STORE names, not a copy
IndexAssignLogs ==
    /\ upPc = "index"
    /\ logs' = store
    /\ shared' = TRUE
    /\ indexed' = FALSE
    /\ upPc' = "encode"
    /\ UNCHANGED <<store, embeddings, corpus, chVars>>

\* the embeddings index_logs stores for these logs
NewEmbeddings(ls) ==
    IF ls = <<>> THEN NoEmbeddings
    ELSE [none |-> FALSE,
          rows |-> Encode([i \in 1..Len(ls) |-> EmbedText(ls[i])])]

\* index_logs: if not logs: self.embeddings = None; return
\*             else self.embeddings = self.model.encode(texts)
\* (the call was given the list _LOG_STORE names, which no one has changed
\* since the call began)
IndexEncode ==
    /\ upPc = "encode"
    /\ embeddings' = NewEmbeddings(logs)
    /\ indexed' = TRUE
    /\ corpus' = store
    /\ upPc' = "idle"
    /\ UNCHANGED <<storeVars, chVars>>

\* index_logs: self.model.encode(texts) raises; upload_file answers 500
IndexEncodeRaises ==
    /\ upPc = "encode"
    /\ logs # <<>>
    /\ upPc' = "idle"
    /\ UNCHANGED <<storeVars, indexVars, chVars>>

\* the functions of services.py, called one by one
StoreNext ==
    \/ ClearStore
    \/ \E entry \in LogEntry : AddLogEntry(entry)
    \/ \E file \in Files : ParseCsvFile(file)

\* the /upload handler
UploadNext ==
    \/ UploadClear
    \/ \E file \in Files : UploadParse(file)
    \/ IndexAssignLogs
    \/ IndexEncode
    \/ IndexEncodeRaises

\* ----------------------------------------------------------- remote calls
\* what requests.post can come back with: a timeout or a transport failure
\* (both raised as exceptions), or an HTTP response with a status and a
\* body that decodes as JSON {"response": body} or does not decode
Timeout == [kind |-> "timeout", status |-> 0, decodable |-> FALSE, body |-> <<>>]
Transport ==
    [kind |-> "transport", status |-> 0, decodable |-> FALSE, body |-> <<>>]
Http(status, decodable, body) ==
    [kind |-> "http", status |-> status, decodable |-> decodable, body |-> body]
Responses ==
    {Timeout, Transport,
     Http(200, TRUE, <<" ", "y", "e", "s">>),
     Http(200, TRUE, <<"N", "O">>),
     Http(200, FALSE, <<>>),
     Http(500, TRUE, <<"e", "r", "r">>)}

\* requests.post raises (timeout, connection error)
PostRaises(r) == r.kind \in {"timeout", "transport"}

\* str.upper() on one character
UpperChar(c) ==
    CASE c = "y" -> "Y" [] c = "e" -> "E" [] c = "s" -> "S"
      [] c = "r" -> "R" [] OTHER -> c

Upper(s) == [i \in 1..Len(s) |-> UpperChar(s[i])]

IsSpace(c) == c \in {" ", "\n"}

\* str.strip()
RECURSIVE LStrip(_)
LStrip(s) == IF s # <<>> /\ IsSpace(Head(s)) THEN LStrip(Tail(s)) ELSE s
Strip(s) == Reverse(LStrip(Reverse(LStrip(s))))

\* "YES" in answer
ContainsYes(s) ==
    \E i \in 1..(Len(s) - 2) : s[i] = "Y" /\ s[i + 1] = "E" /\ s[i + 2] = "S"

\* f"[{log.timestamp}] {log.level}: {log.message}"
Render(log) == <<log.timestamp, log.level, log.message>>

\* a grader without its try/except: a failed post leaves the function
GradeRelevanceNoCatch(r) ==
    IF PostRaises(r) THEN "raise"
    ELSE IF r.status = 200 /\ r.decodable
              /\ ContainsYes(Upper(Strip(r.body)))
         THEN "True" ELSE "False"

\* grade_relevance(query, log_entry) when the backend answers r:
\* "True" or "False", or "raise" if an exception left the function
GradeRelevance(r) ==
    IF PostRaises(r) THEN "True"
    ELSE IF r.status = 200
         THEN IF ~r.decodable THEN "True"
              ELSE IF ContainsYes(Upper(Strip(r.body))) THEN "True" ELSE "False"
         ELSE "False"

Apology == [tag |-> "none relevant", status |-> 0, detail |-> <<>>]

\* a synthesis without its try/except: a failed post leaves the function
SynthAnswerNoCatch(r) ==
    IF PostRaises(r) \/ ~r.decodable
    THEN [tag |-> "raise", status |-> 0, detail |-> <<r.kind>>]
    ELSE IF r.status = 200
         THEN [tag |-> "text", status |-> 200, detail |-> r.body]
         ELSE [tag |-> "Ollama Error", status |-> r.status, detail |-> r.body]

\* the answer generate_response builds from the synthesis response r;
\* tag "raise" if an exception left the try block
SynthAnswer(r) ==
    IF PostRaises(r)
    THEN [tag |-> "Failed to connect to Ollama", status |-> 0,
          detail |-> <<r.kind>>]
    ELSE IF r.status = 200
         THEN IF ~r.decodable
              THEN [tag |-> "Failed to connect to Ollama", status |-> 0,
                    detail |-> <<"json">>]
              ELSE [tag |-> "text", status |-> 200, detail |-> r.body]
         ELSE [tag |-> "Ollama Error", status |-> r.status, detail |-> r.body]

\* ----------------------------------------------------------------- search
\* self.model.encode([query])[0]
QueryEmbedding(q) == Encode(<<<<q>>>>)[1]

\* np.argsort(scores): the orderings of the indices that sort the scores
\* ascending; the default sort is not stable, equal scores come in any order
Argsort(sc) ==
    {p \in Perms(Len(sc)) :
        \A i, j \in 1..Len(sc) : i < j => SortLeq(sc[p[i]], sc[p[j]])}

\* dots / (norms * |q|) under numpy broadcasting: equal lengths divide
\* element by element, a length of one is stretched
Broadcast(ds, dens) ==
    [i \in 1..(IF Len(ds) = 1 THEN Len(dens) ELSE Len(ds)) |->
        Divide(IF Len(ds) = 1 THEN ds[1] ELSE ds[i],
               IF Len(dens) = 1 THEN dens[1] ELSE dens[i])]

\* a grading loop that stops after its first candidate
AfterGradeBreak(rest) == "decide"

\* for res in raw_results: the loop goes on while candidates remain
AfterGrade(rest) == IF rest = <<>> THEN "decide" ELSE "grade"

\* the thread raises: the request ends with an error response
Raise(e) ==
    /\ chPc' = "raised"
    /\ exc' = e
    /\ UNCHANGED <<query, top_k, caller, dots, scores, top_indices, results,
                   todo, relevant_logs, graded, synthCalls, result>>

\* search returns its results to its caller
SearchReturns(res) ==
    /\ results' = res
    /\ todo' = (IF caller = "chat" THEN res ELSE <<>>)
    /\ chPc' = (IF caller = "search" THEN "returned" ELSE AfterGrade(res))
    /\ UNCHANGED <<query, top_k, caller, dots, scores, top_indices,
                   relevant_logs, graded, synthCalls, result, exc>>

\* generate_response(query): raw_results = self.search(query, top_k=5)
ChatBegin(q) ==
    /\ chPc = "idle"
    /\ chPc' = "s37a"
    /\ query' = q
    /\ top_k' = TopK
    /\ caller' = "chat"
    /\ UNCHANGED <<storeVars, indexVars, upVars, dots, scores, top_indices,
                   results, todo, relevant_logs, graded, synthCalls,
                   result, exc>>

\* rag_service.search(query, top_k) called on its own
SearchBegin(q, k) ==
    /\ chPc = "idle"
    /\ chPc' = "s37a"
    /\ query' = q
    /\ top_k' = k
    /\ caller' = "search"
    /\ UNCHANGED <<storeVars, indexVars, upVars, dots, scores, top_indices,
                   results, todo, relevant_logs, graded, synthCalls,
                   result, exc>>

\* a search without the test for an empty index: it always goes on
EarlyReturnNever(empty, next) ==
    /\ chPc' = next
    /\ UNCHANGED <<query, top_k, caller, dots, scores, top_indices,
                   results, todo, relevant_logs, graded, synthCalls,
                   result, exc>>

\* search: if <empty> ...: return []   (one operand of the test; the search
\* goes on to next when the operand is false)
EarlyReturn(empty, next) ==
    IF empty THEN SearchReturns(<<>>)
    ELSE /\ chPc' = next
         /\ UNCHANGED <<query, top_k, caller, dots, scores, top_indices,
                        results, todo, relevant_logs, graded, synthCalls,
                        result, exc>>

\* search: if self.embeddings is None ...: return []
SearchCheckEmbeddings ==
    /\ chPc = "s37a"
    /\ EarlyReturn(embeddings.none, "s37b")
    /\ UNCHANGED <<storeVars, indexVars, upVars>>

\* search: ... or not self.logs: return []
SearchCheckLogs ==
    /\ chPc = "s37b"
    /\ EarlyReturn(logs = <<>>, "s45")
    /\ UNCHANGED <<storeVars, indexVars, upVars>>

\* search: np.dot(self.embeddings, query_embedding)
SearchDot ==
    /\ chPc = "s45"
    /\ IF embeddings.none THEN Raise("TypeError")
       ELSE /\ dots' = [i \in 1..Rows |->
                           Dot(embeddings.rows[i], QueryEmbedding(query))]
            /\ chPc' = "s46"
            /\ UNCHANGED <<query, top_k, caller, scores, top_indices, results,
                           todo, relevant_logs, graded, synthCalls,
                           result, exc>>
    /\ UNCHANGED <<storeVars, indexVars, upVars>>

\* the denominators np.linalg.norm(self.embeddings, axis=1) * |q|
Denominators ==
    [i \in 1..Rows |-> Norm(embeddings.rows[i]) * Norm(QueryEmbedding(query))]

\* search: scores = dots / (norms * |q|);
\*         top_indices = np.argsort(scores)[::-1][:top_k]
SearchScores ==
    /\ chPc = "s46"
    /\ IF embeddings.none THEN Raise("TypeError")
       ELSE IF Len(dots) # Rows /\ Len(dots) # 1 /\ Rows # 1
       THEN Raise("ValueError")
       ELSE /\ scores' = Broadcast(dots, Denominators)
            /\ \E p \in Argsort(scores') :
                   top_indices' = Take(Reverse(p), top_k)
            /\ dots' = <<>>
            /\ chPc' = "s53"
            /\ UNCHANGED <<query, top_k, caller, results, todo, relevant_logs,
                           graded, synthCalls, result, exc>>
    /\ UNCHANGED <<storeVars, indexVars, upVars>>

\* search: for idx in top_indices:
\*             results.append({"log": self.logs[idx], "score": scores[idx]})
\*         return results
\* (every pass appends one result, so the loop stands at the index after
\* the results it has appended)
SearchCollect ==
    /\ chPc = "s53"
    /\ IF Len(results) = Len(top_indices)
       THEN /\ SearchReturns(results)
       ELSE IF top_indices[Len(results) + 1] > Len(logs)
       THEN Raise("IndexError")
       ELSE /\ results' = Append(results,
                              [log |-> logs[top_indices[Len(results) + 1]],
                               score |-> scores[top_indices[Len(results) + 1]]])
            /\ UNCHANGED <<chPc, query, top_k, caller, dots, scores,
                           top_indices, todo, relevant_logs, graded,
                           synthCalls, result, exc>>
    /\ UNCHANGED <<storeVars, indexVars, upVars>>

\* ------------------------------------------------------ generate_response
\* a survivor test that never finds the list empty
NoSurvivorsNever(ls) == FALSE

\* if not relevant_logs
NoSurvivors(ls) == ls = <<>>

\* a grading loop that keeps every candidate, whatever the verdict
KeepAlways(verdict, ls, log) == Append(ls, log)

\* if self.grade_relevance(query, log_str): relevant_logs.append(log)
Keep(verdict, ls, log) == IF verdict = "True" THEN Append(ls, log) ELSE ls

\* for res in raw_results: if self.grade_relevance(query, log_str):
\*                             relevant_logs.append(log)
\* one blocking grading call, answered by r
Grade(r) ==
    /\ chPc = "grade"
    /\ todo # <<>>
    /\ graded' = Append(graded, [log_str |-> Render(Head(todo).log),
                                 verdict |-> GradeRelevance(r)])
    /\ IF GradeRelevance(r) = "raise"
       THEN /\ chPc' = "raised"
            /\ exc' = "grader"
            /\ UNCHANGED <<todo, relevant_logs>>
       ELSE /\ relevant_logs' = Keep(GradeRelevance(r), relevant_logs,
                                     Head(todo).log)
            /\ todo' = Tail(todo)
            /\ chPc' = AfterGrade(Tail(todo))
            /\ UNCHANGED exc
    /\ UNCHANGED <<storeVars, indexVars, upVars, query, top_k, caller, dots,
                   scores, top_indices, results, synthCalls, result>>

\* if not relevant_logs: return {"answer": "I found some logs, but ...",
\*                               "context": []}
EmptyShortCircuit ==
    /\ chPc = "decide"
    /\ NoSurvivors(relevant_logs)
    /\ result' = [answer |-> Apology, context |-> <<>>]
    /\ chPc' = "done"
    /\ UNCHANGED <<storeVars, indexVars, upVars, query, top_k, caller, dots,
                   scores, top_indices, results, todo, relevant_logs, graded,
                   synthCalls, exc>>

\* context_str: one rendered line per entry of relevant_logs, in its order
ContextStr(ls) == [i \in 1..Len(ls) |-> Render(ls[i])]

\* a returned context in the opposite order of the one rendered
ContextReversed(ls) == Reverse(ls)

\* the context generate_response returns: relevant_logs
Context(ls) == ls

\* the synthesis call, answered by r, and
\* return {"answer": answer, "context": relevant_logs}
Synthesize(r) ==
    /\ chPc = "decide"
    /\ ~NoSurvivors(relevant_logs)
    /\ synthCalls' = Append(synthCalls, ContextStr(relevant_logs))
    /\ IF SynthAnswer(r).tag = "raise"
       THEN /\ chPc' = "raised"
            /\ exc' = "synthesis"
            /\ UNCHANGED result
       ELSE /\ result' = [answer |-> SynthAnswer(r),
                          context |-> Context(relevant_logs)]
            /\ chPc' = "done"
            /\ UNCHANGED exc
    /\ UNCHANGED <<storeVars, indexVars, upVars, query, top_k, caller, dots,
                   scores, top_indices, results, todo, relevant_logs, graded>>

\* the request is over: its locals are dropped
ChatEnd ==
    /\ chPc \in {"done", "returned", "raised"}
    /\ chPc' = "idle"
    /\ query' = ""
    /\ top_k' = TopK
    /\ caller' = "chat"
    /\ dots' = <<>>
    /\ scores' = <<>>
    /\ top_indices' = <<>>
    /\ results' = <<>>
    /\ todo' = <<>>
    /\ relevant_logs' = <<>>
    /\ graded' = <<>>
    /\ synthCalls' = <<>>
    /\ result' = NoResult
    /\ exc' = ""
    /\ UNCHANGED <<storeVars, indexVars, upVars>>

\* a thread calling search on its own
SearchNext ==
    \/ \E q \in Queries, k \in 1..MaxK : SearchBegin(q, k)
    \/ SearchCheckEmbeddings
    \/ SearchCheckLogs
    \/ SearchDot
    \/ SearchScores
    \/ SearchCollect
    \/ ChatEnd

\* the /chat handler, and search called on its own
ChatNext ==
    \/ \E q \in Queries : ChatBegin(q)
    \/ \E r \in Responses : Grade(r)
    \/ EmptyShortCircuit
    \/ \E r \in Responses : Synthesize(r)
    \/ SearchNext

\* ---------------------------------------------------------- specifications
\* the service under concurrent requests: /upload runs on the event loop
\* and /chat on a worker thread, so the steps of index_logs and of search
\* interleave.  search is the only part of a chat that reads the index.
Next == UploadNext \/ SearchNext

Spec == Init /\ [][Next]_vars

\* the service with one request at a time: a request runs to its end
\* before the next one starts
NextSeq ==
    \/ chPc = "idle" /\ UploadClear
    \/ chPc = "idle" /\ \E file \in Files : UploadParse(file)
    \/ chPc = "idle" /\ IndexAssignLogs
    \/ chPc = "idle" /\ IndexEncode
    \/ chPc = "idle" /\ IndexEncodeRaises
    \/ upPc = "idle" /\ \E q \in Queries : ChatBegin(q)
    \/ upPc = "idle" /\ \E q \in Queries, k \in 1..MaxK : SearchBegin(q, k)
    \/ upPc = "idle" /\ SearchCheckEmbeddings
    \/ upPc = "idle" /\ SearchCheckLogs
    \/ upPc = "idle" /\ SearchDot
    \/ upPc = "idle" /\ SearchScores
    \/ upPc = "idle" /\ SearchCollect
    \/ upPc = "idle" /\ \E r \in Responses : Grade(r)
    \/ upPc = "idle" /\ EmptyShortCircuit
    \/ upPc = "idle" /\ \E r \in Responses : Synthesize(r)
    \/ upPc = "idle" /\ ChatEnd

SpecSeq == Init /\ [][NextSeq]_vars

\* the store and the index as a library: the functions of services.py and
\* uploads, in any order, one at a time
NextStore == StoreNext \/ UploadNext

SpecStore == Init /\ [][NextStore]_vars

\* ----------------------------------------------------------------- claims
\* the thread is inside search
Searching == chPc \in {"s37a", "s37b", "s45", "s46", "s53"}

\* generate_response has returned
ChatDone == caller = "chat" /\ chPc = "done"

\* search, called on its own, has returned
SearchDone == caller = "search" /\ chPc = "returned"

\* the grading call failed: timeout, transport failure or a non-2xx status
GraderFailed(r) ==
    \/ r.kind \in {"timeout", "transport"}
    \/ r.kind = "http" /\ r.status \notin 200..299

\* the rendered lines c are in ascending timestamp order
Chronological(c) == \A i, j \in 1..Len(c) : i < j => c[i][1] <= c[j][1]

\* the survivors of the grading calls made so far, by their rendered lines
TrueVerdicts == {i \in 1..Len(graded) : graded[i].verdict = "True"}

\* C1: while index_logs runs and another thread is inside search, the
\* stored embedding matrix has as many rows as the stored log list has
\* entries (no rows for an absent matrix): the reader meets the old pair or
\* the new pair, never a mixed one.
C1_RebuildAtomic ==
    (upPc = "encode" /\ Searching) => Rows = Len(logs)

\* C2: every grading call that times out, fails in transport or comes back
\* with a non-2xx status is graded true: the candidate is kept.
C2_GraderFailOpen ==
    [][\A r \in Responses :
          (Grade(r) /\ GraderFailed(r)) =>
              /\ graded'[Len(graded')].verdict = "True"
              /\ relevant_logs' = Append(relevant_logs, Head(todo).log)]_vars

\* C3: the context block of every synthesis call lists the survivors in
\* ascending timestamp order, and the context generate_response returns is
\* in that same order (stated for retrievals whose scores are numbers, no
\* two of them equal).
C3_ChronologicalContext ==
    (\A m, n \in 1..Len(scores) :
        scores[n] # NaN /\ (m # n => scores[m] # scores[n])) =>
        /\ \A i \in 1..Len(synthCalls) : Chronological(synthCalls[i])
        /\ ChatDone => Chronological(ContextStr(result.context))

\* C4: a store mutation that is no re-index (clear_store, add_log_entry,
\* parse_csv_file called after index_logs) leaves the log list of the index
\* as it was.
C4_SnapshotIndependence ==
    [][StoreNext => logs' = logs]_vars

\* C5: on an indexed corpus, search(q, k) returns at most min(k, len(C))
\* candidates, each a distinct record of C, in non-increasing score order,
\* and no record left out scores strictly higher than a returned one.
C5_TopKSorted ==
    (SearchDone /\ indexed) =>
        /\ Len(results) <= Min(top_k, Len(logs))
        /\ Len(top_indices) = Len(results)
        /\ \A i, j \in 1..Len(results) :
               i # j => top_indices[i] # top_indices[j]
        /\ \A i \in 1..Len(results) :
               /\ top_indices[i] \in 1..Len(logs)
               /\ results[i].log = logs[top_indices[i]]
        /\ \A i, j \in 1..Len(results) :
               i < j => ScoreGeq(results[i].score, results[j].score)
        /\ \A i \in 1..Len(results) :
               \A n \in (1..Len(scores)) \ Range(top_indices) :
                   ~ScoreGt(scores[n], results[i].score)

\* C6: of two records with equal score, search places the one with the
\* lower corpus index first, and when the tie straddles the cut-off the
\* lower index is the one returned.
C6_TieBreakLowerIndexFirst ==
    (SearchDone /\ indexed) =>
        /\ \A i, j \in 1..Len(top_indices) :
               (i < j /\ scores[top_indices[i]] = scores[top_indices[j]]
                      /\ scores[top_indices[i]] # NaN)
                   => top_indices[i] < top_indices[j]
        /\ \A i \in 1..Len(top_indices) :
               \A n \in (1..Len(scores)) \ Range(top_indices) :
                   (scores[n] = scores[top_indices[i]] /\ scores[n] # NaN)
                       => top_indices[i] < n

\* C7: a chat whose grading calls all returned false ends with an empty
\* context and the fixed answer and issues no synthesis call; a synthesis
\* call is issued only with at least one survivor, never with an empty
\* context block.
C7_EmptyShortCircuit ==
    /\ (ChatDone /\ TrueVerdicts = {}) =>
           /\ result = [answer |-> Apology, context |-> <<>>]
           /\ synthCalls = <<>>
    /\ synthCalls # <<>> => TrueVerdicts # {}
    /\ \A i \in 1..Len(synthCalls) : synthCalls[i] # <<>>

C7_Witness ==
    /\ ChatDone
    /\ Len(graded) = 2
    /\ TrueVerdicts = {}
    /\ result.answer = Apology

\* the synthesis call failed: timeout, transport failure or a non-2xx status
SynthFailed(r) ==
    \/ r.kind \in {"timeout", "transport"}
    \/ r.kind = "http" /\ r.status \notin 200..299

DiagnosticTags == {"Failed to connect to Ollama", "Ollama Error"}

\* C8: a synthesis call that fails by transport error, timeout or non-2xx
\* status still ends the chat with a result: its answer is a diagnostic of
\* the failure and its context is the non-empty list of survivors.
C8_SynthesisFailureDegraded ==
    [][\A r \in Responses :
          (Synthesize(r) /\ SynthFailed(r)) =>
              /\ chPc' = "done"
              /\ result'.answer.tag \in DiagnosticTags
              /\ result'.context = relevant_logs
              /\ result'.context # <<>>]_vars

C8_Witness ==
    /\ ChatDone
    /\ result.answer.tag = "Failed to connect to Ollama"
    /\ result.answer.detail = <<"timeout">>
    /\ Len(result.context) = 2

\* what generate_response may return: an answer and a list of log entries
IsChatResult(res) ==
    /\ res.answer.tag \in DiagnosticTags \cup {"text", "none relevant"}
    /\ res.context \in SeqsUpTo(LogEntry, TopK)

\* C9: on an indexed or empty corpus a chat ends for every outcome of its
\* grading and synthesis calls: no exception leaves generate_response, in
\* every state short of its end a step is enabled, and at its end it has
\* returned an answer with a context; no failure of the grading or the
\* synthesis backend is raised to the caller.
C9_ChatAlwaysReturns ==
    /\ exc \notin {"grader", "synthesis"}
    /\ (caller = "chat" /\ indexed) =>
           /\ chPc # "raised"
           /\ chPc \notin {"idle", "done"} => ENABLED ChatNext
           /\ chPc = "done" => IsChatResult(result)

C9_Witness ==
    /\ ChatDone
    /\ indexed
    /\ Len(graded) = 2
    /\ Len(relevant_logs) = 1
    /\ result.answer.tag = "Ollama Error"

\* C10: within one chat, grading starts after retrieval has returned, the
\* grading calls are one per retrieved candidate in retrieval order (at
\* most TopK, none for an empty corpus), all of them are made before the
\* synthesis call, and there is at most one synthesis call.
C10_PipelineOrder ==
    caller = "chat" =>
        /\ graded # <<>> => chPc \in {"grade", "decide", "done"}
        /\ Len(graded) <= Len(results)
        /\ Len(results) <= TopK
        /\ \A i \in 1..Len(graded) :
               graded[i].log_str = Render(results[i].log)
        /\ chPc = "grade" => Len(graded) < Len(results)
        /\ chPc \in {"decide", "done"} => Len(graded) = Len(results)
        /\ synthCalls # <<>> => chPc = "done"
        /\ Len(synthCalls) <= 1
        /\ logs = <<>> => graded = <<>>

C10_Witness ==
    /\ ChatDone
    /\ Len(results) = 2
    /\ Len(graded) = 2
    /\ Len(synthCalls) = 1

\* C11: once index_logs([]) has returned, whatever was indexed before, and
\* until index_logs is called again, every search that has ended has
\* returned the empty sequence and has raised nothing, for every query and
\* every top_k.
C11_EmptyCorpusSearchEmpty ==
    (indexed /\ corpus = <<>> /\ chPc # "idle" /\ ~Searching)
        => (results = <<>> /\ exc = "")

\* a search with a query that has a non-zero embedding has returned after an
\* upload indexed the empty corpus (logs names the store only after an
\* index_logs call)
C11_Witness ==
    /\ SearchDone
    /\ shared
    /\ indexed
    /\ corpus = <<>>
    /\ query = "disk"
    /\ top_k = MaxK
    /\ results = <<>>
    /\ exc = ""

\* the embedding index_logs stores for a record
RowOf(log) == Encode(<<EmbedText(log)>>)[1]

\* the record's embedding or the query's embedding has L2 norm zero
ZeroNormPair(log, q) == Norm(RowOf(log)) = 0 \/ Norm(QueryEmbedding(q)) = 0

\* C12: a search over an index whose rebuild returned ends without an
\* error; every returned candidate whose record embedding or query
\* embedding has norm zero carries the score -1, and no such candidate is
\* ranked before a candidate scored from two non-zero norms.
C12_ZeroNormScoredLast ==
    (indexed /\ chPc # "idle" /\ ~Searching) =>
        /\ exc = ""
        /\ \A i \in 1..Len(results) :
               ZeroNormPair(results[i].log, query) =>
                   /\ results[i].score = -100
                   /\ \A j \in (i + 1)..Len(results) :
                          ZeroNormPair(results[j].log, query)

\* the records of the candidates res whose grading call, recorded at the
\* same position of gr, returned true, in the order of res
RECURSIVE Survivors(_, _)
Survivors(res, gr) ==
    IF res = <<>> \/ gr = <<>> THEN <<>>
    ELSE (IF Head(gr).verdict = "True" THEN <<Head(res).log>> ELSE <<>>)
             \o Survivors(Tail(res), Tail(gr))

\* C13: when a chat returns after a synthesis call, every candidate of its
\* retrieval result has been graded once, the returned context holds
\* exactly the candidates graded true, one entry for each, none graded
\* false, and every context record is a record of the retrieval result,
\* which was asked for with top_k = 5 and has at most 5 candidates.
C13_SurvivorSetExact ==
    (ChatDone /\ synthCalls # <<>>) =>
        /\ top_k = TopK
        /\ Len(results) <= TopK
        /\ Len(graded) = Len(results)
        /\ result.context = Survivors(results, graded)
        /\ \A i \in 1..Len(result.context) :
               \E j \in 1..Len(results) : result.context[i] = results[j].log

\* a chat returned after synthesis with one candidate graded false and one
\* graded true
C13_Witness ==
    /\ ChatDone
    /\ synthCalls # <<>>
    /\ Len(results) = 2
    /\ \E i \in 1..2 : graded[i].verdict = "False"
    /\ Len(result.context) = 1

\* C14: when a chat returns after a synthesis call, the context block sent
\* in that call is the rendering, line for line and in the same order, of
\* the records of the returned context; one synthesis call is made.
C14_ContextMatchesPrompt ==
    (ChatDone /\ synthCalls # <<>>) =>
        /\ Len(synthCalls) = 1
        /\ synthCalls[1] = ContextStr(result.context)

\* a chat returned after a synthesis call that was shown two different
\* records
C14_Witness ==
    /\ ChatDone
    /\ Len(synthCalls) = 1
    /\ Len(result.context) = 2
    /\ result.context[1] # result.context[2]

\* the similarity search computes for a record's own embedding row
ScoreOf(log, q) ==
    Divide(Dot(RowOf(log), QueryEmbedding(q)),
           Norm(RowOf(log)) * Norm(QueryEmbedding(q)))

\* C15: a search running while index_logs runs on the same instance never
\* raises an out-of-range index error, and when it returns, the score of
\* every returned candidate is the similarity of that candidate's own
\* record with the query.
C15_SearchReadsOneSnapshot ==
    /\ exc # "IndexError"
    /\ SearchDone =>
           \A i \in 1..Len(results) :
               results[i].score = ScoreOf(results[i].log, query)

\* C16: when the last index_logs call was given a non-empty corpus and the
\* encoder raised, the index still holds the log list and the embedding
\* matrix of the last call that returned.
C16_RebuildAllOrNothing ==
    (upPc = "idle" /\ ~indexed) =>
        /\ logs = corpus
        /\ embeddings = NewEmbeddings(corpus)

\* C17: between upload requests, whether the last one succeeded or failed
\* part-way, the log list the index answers from equals the contents of the
\* store.
C17_IndexFollowsStore ==
    upPc = "idle" => logs = store

====
